---- MODULE Spec2Model ----
(***************************************************************************)
(* Page-image cache and preload scheduler of the PDF flip-book viewer.     *)
(* PortfolioBook1.jsx (react-flip-page variant) is modelled as one mounted *)
(* component instance: React state (pageCount, pages, loadingPages,        *)
(* loading, error, currentPage), refs (pdfRef, loadingQueue), the init     *)
(* effect's position and its `cancelled` flag, the timers and idle         *)
(* callbacks that are pending and the renders that are in flight.          *)
(*                                                                         *)
(* Conventions.  A state setter followed by its re-render (and the effect  *)
(* clean-ups the re-render triggers) is one step.  A state setter called   *)
(* after unmount is a no-op (React drops updates of unmounted components), *)
(* and the state of an unmounted component reads as its initial state.     *)
(* Code between two awaits runs as one step; the continuation of           *)
(* `await loadPage()` is a microtask, so the completion of a foreground    *)
(* render and the start of the next loop iteration are one step.           *)
(* preloadPagesAround reads pageCount, pages and loadingPages from the     *)
(* closure of the render that created the callback, refs are read live.    *)
(*                                                                         *)
(* PortfolioBook.jsx (react-pageflip variant) has the same state names and *)
(* is modelled over the same variables by the actions named Book...; its   *)
(* init effect depends on preloadPagesAround and so has several runs, kept *)
(* in `initRuns`.  Spec and FairSpec are PortfolioBook1, BookSpec is       *)
(* PortfolioBook.                                                          *)
(***************************************************************************)
EXTENDS Integers, Sequences, FiniteSets, TLC

\* Page counts of the documents considered (pdf.numPages).
PageCounts == {1, 2, 10}

\* Page flips a run is followed for.
MaxNav == 2

\* Other events from outside the component a run is followed for: deferred
\* callbacks (setTimeout, requestIdleCallback) that get to run and renders of
\* an existing page that the document fails.
MaxEvents == 2

\* PortfolioBook: calls of getDocument (runs of the init effect) a run is
\* followed for.
MaxOpens == 4

PRELOAD_RANGE == 2
ForegroundBatch == 2
BackgroundBatch == 4

VARIABLES
  numPages,      \* pdf.numPages of /portfolio.pdf
  cancelled,     \* `cancelled` of PortfolioBook1's init effect; TRUE once unmounted
  initPc,        \* position of init()
  pdfRef,        \* pdfRef.current !== null
  pageCount,     \* state pageCount
  pages,         \* state pages: Map index -> image (named by the render that made it)
  loadingPages,  \* state loadingPages
  loadingQueue,  \* loadingQueue.current
  loading,       \* state loading
  error,         \* state error !== null
  currentPage,   \* state currentPage
  tasks,         \* loadPage closures: waiting for the idle callback or rendering
                 \* (PortfolioBook: the preloadPagesAround calls of onFlip)
  timers,        \* pending setTimeout callbacks that call preloadPagesAround
  navCount,      \* calls of handlePageChange (PortfolioBook: onFlip) so far
  unrevoked,     \* blob: URLs created and not revoked
  failed,        \* history: render calls that failed
  escaped,       \* an exception left a handler uncaught
  events,        \* deferred callbacks run and renders failed so far
  initRuns,      \* PortfolioBook: the runs of the init effect, each with its `cancelled`
  opened         \* calls of pdfjsLib.getDocument so far

vars == <<numPages, cancelled, initPc, pdfRef, pageCount, pages,
          loadingPages, loadingQueue, loading, error, currentPage, tasks,
          timers, navCount, unrevoked, failed, escaped,
          events, initRuns, opened>>

\* The variables PortfolioBook1 does not have or does not change.
bookVars == <<initRuns>>

\* The variables PortfolioBook does not have.
flipPageVars == <<initPc, loadingPages, loadingQueue, timers, unrevoked>>

----------------------------------------------------------------------------
\* Helpers

Range(f) == {f[x] : x \in DOMAIN f}

Abs(x) == IF x < 0 THEN -x ELSE x

Min(a, b) == IF a < b THEN a ELSE b

\* new Map(prev).set(idx, imageData)
MapSet(m, idx, v) == [i \in (DOMAIN m) \cup {idx} |-> IF i = idx THEN v ELSE m[i]]

EmptyMap == [i \in {} |-> 0]

\* The render that produced an image names it.
Handle(idx, src, nav) == [idx |-> idx, src |-> src, nav |-> nav]

Src(priority) == IF priority THEN "fg" ELSE "bg"

\* The closure a render of the component gives to preloadPagesAround.
Closure == [pageCount |-> pageCount, pages |-> DOMAIN pages, loadingPages |-> loadingPages]

\* The closure of the first render, the one the init effect keeps.
FirstRenderClosure == [pageCount |-> 0, pages |-> {}, loadingPages |-> {}]

----------------------------------------------------------------------------
\* loadPageImage: every failure of getPage / render is caught and becomes null.
LoadPageImage(hasPdf, outcome) ==
  IF ~hasPdf THEN "null"
  ELSE IF outcome = "ok" THEN "image" ELSE "null"

\* The document renders page number n: pages outside 1..numPages are rejected.
RenderOutcomes(n) ==
  IF n < 1 \/ n > numPages THEN {"error"}
  ELSE IF events < MaxEvents THEN {"ok", "error"} ELSE {"ok"}

\* preloadPagesAround, lines 67-84: the candidate list before sorting.
RECURSIVE WindowFrom(_, _, _, _)
WindowFrom(i, currentIndex, last, c) ==
  IF i > last THEN <<>>
  ELSE LET idx == currentIndex + i
       IN (IF idx >= 0 /\ idx < c.pageCount /\ idx \notin c.pages /\ idx \notin c.loadingPages
           THEN <<idx>> ELSE <<>>) \o WindowFrom(i + 1, currentIndex, last, c)

\* Candidates without the test of line 73.
Candidates_NoClip(currentIndex, priority, c) ==
  IF priority
  THEN <<currentIndex, currentIndex + 1>>
  ELSE WindowFrom(-PRELOAD_RANGE, currentIndex, PRELOAD_RANGE + 1, c)

\* Candidates with the loop of line 78 ending at PRELOAD_RANGE.
Candidates_NoLookahead(currentIndex, priority, c) ==
  IF priority
  THEN <<currentIndex>> \o (IF currentIndex + 1 < c.pageCount THEN <<currentIndex + 1>> ELSE <<>>)
  ELSE WindowFrom(-PRELOAD_RANGE, currentIndex, PRELOAD_RANGE, c)

Candidates(currentIndex, priority, c) ==
  IF priority
  THEN <<currentIndex>> \o (IF currentIndex + 1 < c.pageCount THEN <<currentIndex + 1>> ELSE <<>>)
  ELSE WindowFrom(-PRELOAD_RANGE, currentIndex, PRELOAD_RANGE + 1, c)

\* Array.prototype.sort with the distance comparator (stable).
RECURSIVE InsertByDistance(_, _, _)
InsertByDistance(x, s, currentIndex) ==
  IF s = <<>> THEN <<x>>
  ELSE IF Abs(x - currentIndex) < Abs(Head(s) - currentIndex)
       THEN <<x>> \o s
       ELSE <<Head(s)>> \o InsertByDistance(x, Tail(s), currentIndex)

RECURSIVE SortByDistance(_, _)
SortByDistance(s, currentIndex) ==
  IF s = <<>> THEN <<>>
  ELSE InsertByDistance(s[Len(s)], SortByDistance(SubSeq(s, 1, Len(s) - 1), currentIndex), currentIndex)

\* pagesToLoad.slice(0, priority ? 2 : 4)
Slice(s, priority) ==
  SubSeq(s, 1, Min(Len(s), IF priority THEN ForegroundBatch ELSE BackgroundBatch))

\* The list the for loop of preloadPagesAround iterates over.
PagesToLoad(currentIndex, priority, c) ==
  Slice(SortByDistance(Candidates(currentIndex, priority, c), currentIndex), priority)

\* Line 65: the pass returns at once.
PassReturnsEarly(c) == ~pdfRef \/ c.pageCount = 0

\* Line 90 left out.
AlreadyQueued_Never(idx, queue) == FALSE

\* Line 90: if (loadingQueue.current.has(idx)) continue;
AlreadyQueued(idx, queue) == idx \in queue

\* The loop skips queued indices; what is left starts with the index to load.
RECURSIVE DropQueued(_, _)
DropQueued(list, queue) ==
  IF list = <<>> THEN <<>>
  ELSE IF AlreadyQueued(Head(list), queue) THEN DropQueued(Tail(list), queue)
       ELSE list

\* The indices for which a background pass registers a deferred loadPage.
RECURSIVE Started(_, _)
Started(list, queue) ==
  IF list = <<>> THEN {}
  ELSE IF AlreadyQueued(Head(list), queue) THEN Started(Tail(list), queue)
       ELSE {Head(list)} \cup Started(Tail(list), queue \cup {Head(list)})

\* A render the document fails although the page exists is an event.
Count(page, outcome) ==
  IF outcome = "error" /\ page >= 1 /\ page <= numPages THEN events + 1 ELSE events

\* loadPage, line 101: if (imageData) setPages(...)
Stores(result) == result = "image"

\* loadPage, lines 97-113: the call is inside try/catch, nothing is rethrown.
LoadPageRethrows(result) == FALSE

\* A state setter of an unmounted component changes nothing.
SetState(old, new) == IF cancelled THEN old ELSE new

\* loadPage without its finally block.
Finally_Never(inFlight, idx, result) == inFlight

\* The removal done only after a render that gave an image.
Finally_OnSuccess(inFlight, idx, result) ==
  IF result = "image" THEN inFlight \ {idx} ELSE inFlight

\* loadPage, lines 106-112: the finally block takes idx out of an in-flight set.
Finally(inFlight, idx, result) == inFlight \ {idx}

\* The catch of init without setError.
CaughtError_Lost(e) == e

\* init, line 183: setError(err.message || "Failed to load PDF").
CaughtError(e) == SetState(e, TRUE)

\* Line 55 with OffscreenCanvas (which has no toDataURL): every image is a
\* blob: URL made by URL.createObjectURL.  Without OffscreenCanvas images are
\* data: URLs, nothing needs release and `unrevoked` is not looked at; the
\* other variables evolve the same way in both environments.
Blobs(hs) == hs

\* The clean-up of the [pages] effect revokes every blob: URL of the map it saw.
CleanupPages(m, urls) == urls \ Blobs(Range(m))

\* What is shown: the loading screen, the error screen or the FlipPage viewer.
ViewerShown == ~cancelled /\ ~loading /\ ~error

\* FlipPage turns one page forward or backward and reports the new page.
FlipTargets == {n \in {currentPage - 1, currentPage + 1} : n >= 0 /\ n < pageCount}

----------------------------------------------------------------------------
Init ==
  /\ numPages \in PageCounts
  /\ cancelled = FALSE
  /\ initPc = "open"
  /\ pdfRef = FALSE
  /\ pageCount = 0
  /\ pages = EmptyMap
  /\ loadingPages = {}
  /\ loadingQueue = {}
  /\ loading = TRUE
  /\ error = FALSE
  /\ currentPage = 0
  /\ tasks = {}
  /\ timers = {}
  /\ navCount = 0
  /\ unrevoked = {}
  /\ failed = {}
  /\ escaped = FALSE
  /\ events = 0
  /\ initRuns = {}
  /\ opened = 1

\* init, lines 138-143 and the catch of lines 180-186.
OpenDocument(ok) ==
  /\ initPc = "open"
  /\ IF ok
     THEN /\ initPc' = IF cancelled THEN "returned" ELSE "dims"
          /\ pdfRef' = ~cancelled
          /\ pageCount' = SetState(pageCount, numPages)
          /\ UNCHANGED <<error, loading>>
     ELSE /\ initPc' = "openFailed"
          /\ error' = CaughtError(error)
          /\ loading' = SetState(loading, FALSE)
          /\ UNCHANGED <<pdfRef, pageCount>>
  /\ UNCHANGED <<bookVars, opened, numPages, cancelled, pages, loadingPages, loadingQueue,
                 currentPage, tasks, timers, navCount, unrevoked, failed,
                 escaped, events>>

\* init, lines 146-160: the dimensions of page 1, then the first render call.
GetDimensions(ok) ==
  /\ initPc = "dims"
  /\ IF ok
     THEN /\ initPc' = "first"
          /\ UNCHANGED <<error, loading>>
     ELSE /\ initPc' = "pageFailed"
          /\ error' = CaughtError(error)
          /\ loading' = SetState(loading, FALSE)
  /\ UNCHANGED <<bookVars, opened, numPages, cancelled, pdfRef, pageCount, pages, loadingPages,
                 loadingQueue, currentPage, tasks, timers, navCount, unrevoked, failed,
                 escaped, events>>

\* init, lines 160-166: page 1 is back, page 2 is asked for.
FirstPageDone(outcome) ==
  /\ initPc = "first"
  /\ outcome \in RenderOutcomes(1)
  /\ LET h == Handle(0, "init", 0)
         got == LoadPageImage(TRUE, outcome) = "image"
         made == IF got THEN unrevoked \cup Blobs({h}) ELSE unrevoked
     IN /\ pages' = IF ~cancelled /\ got THEN MapSet(pages, 0, h) ELSE pages
        /\ unrevoked' = IF ~cancelled /\ got THEN CleanupPages(pages, made) ELSE made
        /\ failed' = IF outcome = "ok" THEN failed ELSE failed \cup {h}
  /\ initPc' = "second"
  /\ events' = Count(1, outcome)
  /\ UNCHANGED <<bookVars, opened, numPages, cancelled, pdfRef, pageCount, loadingPages,
                 loadingQueue, loading, error, currentPage, tasks, timers, navCount,
                 escaped>>

\* init, lines 166-178: page 2 is back, the viewer is shown, the timer is set.
SecondPageDone(outcome) ==
  /\ initPc = "second"
  /\ outcome \in RenderOutcomes(2)
  /\ LET h == Handle(1, "init", 0)
         got == LoadPageImage(TRUE, outcome) = "image"
         made == IF got THEN unrevoked \cup Blobs({h}) ELSE unrevoked
     IN /\ pages' = IF ~cancelled /\ got THEN MapSet(pages, 1, h) ELSE pages
        /\ unrevoked' = IF ~cancelled /\ got THEN CleanupPages(pages, made) ELSE made
        /\ failed' = IF outcome = "ok" THEN failed ELSE failed \cup {h}
  /\ initPc' = "done"
  /\ loading' = SetState(loading, FALSE)
  /\ timers' = timers \cup {[nav |-> 0, cur |-> 0, c |-> FirstRenderClosure, init |-> TRUE]}
  /\ events' = Count(2, outcome)
  /\ UNCHANGED <<bookVars, opened, numPages, cancelled, pdfRef, pageCount, loadingPages,
                 loadingQueue, error, currentPage, tasks, navCount,
                 escaped>>

\* The foreground loop from `list` on: the first index that is not queued is
\* queued and rendered at once, the loop waits for it (line 118).
ForegroundTask(list, nav, queue) ==
  LET r == DropQueued(list, queue)
  IN IF r = <<>> THEN {}
     ELSE {[idx |-> Head(r), priority |-> TRUE, stage |-> "render",
            rest |-> Tail(r), nav |-> nav]}

\* The background loop: every index that is not queued is queued and its
\* loadPage is handed to requestIdleCallback / setTimeout (lines 121-125).
BackgroundTasks(list, nav, queue) ==
  {[idx |-> i, priority |-> FALSE, stage |-> "idle", rest |-> <<>>, nav |-> nav] :
     i \in Started(list, queue)}

Idxs(ts) == {t.idx : t \in ts}

\* handlePageChange, lines 242-247.
Navigate(newPage) ==
  /\ ViewerShown
  /\ navCount < MaxNav
  /\ newPage \in FlipTargets
  /\ LET nav == navCount + 1
         c == Closure
         list == PagesToLoad(newPage, TRUE, c)
         new == IF PassReturnsEarly(c) THEN {} ELSE ForegroundTask(list, nav, loadingQueue)
     IN /\ navCount' = nav
        /\ currentPage' = newPage
        /\ tasks' = tasks \cup new
        /\ loadingQueue' = loadingQueue \cup Idxs(new)
        /\ loadingPages' = SetState(loadingPages, loadingPages \cup Idxs(new))
        /\ timers' = timers \cup {[nav |-> nav, cur |-> newPage, c |-> c, init |-> FALSE]}
  /\ UNCHANGED <<bookVars, opened, numPages, cancelled, initPc, pdfRef, pageCount, pages,
                 loading, error, unrevoked, failed, escaped, events>>

\* The timer of init (lines 174-178) or of handlePageChange (line 246) fires:
\* a background pass with the closure the timer was created in.
TimerFires(tm) ==
  /\ tm \in timers
  /\ events < MaxEvents
  /\ events' = events + 1
  /\ timers' = timers \ {tm}
  /\ LET runs == ~(tm.init /\ cancelled) /\ ~PassReturnsEarly(tm.c)
         list == PagesToLoad(tm.cur, FALSE, tm.c)
         new == IF runs THEN BackgroundTasks(list, tm.nav, loadingQueue) ELSE {}
     IN /\ tasks' = tasks \cup new
        /\ loadingQueue' = loadingQueue \cup Idxs(new)
        /\ loadingPages' = SetState(loadingPages, loadingPages \cup Idxs(new))
  /\ UNCHANGED <<bookVars, opened, numPages, cancelled, initPc, pdfRef, pageCount, pages,
                 loading, error, currentPage, navCount, unrevoked, failed,
                 escaped>>

\* The idle callback (or the 50 ms timer) runs loadPage: the render call is made.
IdleCallback(t) ==
  /\ t \in tasks
  /\ t.stage = "idle"
  /\ events < MaxEvents
  /\ events' = events + 1
  /\ tasks' = (tasks \ {t}) \cup {[t EXCEPT !.stage = "render"]}
  /\ UNCHANGED <<bookVars, opened, numPages, cancelled, initPc, pdfRef, pageCount, pages,
                 loadingPages, loadingQueue, loading, error, currentPage, timers,
                 navCount, unrevoked, failed, escaped>>

\* loadPage, lines 99-113, from the return of loadPageImage on; for a
\* foreground pass the loop then goes on with the next index (lines 89-93).
RenderDone(t, outcome) ==
  /\ t \in tasks
  /\ t.stage = "render"
  /\ outcome \in RenderOutcomes(t.idx + 1)
  /\ LET h == Handle(t.idx, Src(t.priority), t.nav)
         result == LoadPageImage(pdfRef, outcome)
         made == IF result = "image" THEN unrevoked \cup Blobs({h}) ELSE unrevoked
         set == Stores(result) /\ ~cancelled
         queue == Finally(loadingQueue, t.idx, result)
         new == IF t.priority THEN ForegroundTask(t.rest, t.nav, queue) ELSE {}
     IN /\ pages' = IF set THEN MapSet(pages, t.idx, h) ELSE pages
        /\ unrevoked' = IF set THEN CleanupPages(pages, made) ELSE made
        /\ failed' = IF outcome = "ok" THEN failed ELSE failed \cup {h}
        /\ escaped' = (escaped \/ LoadPageRethrows(result))
        /\ events' = Count(t.idx + 1, outcome)
        /\ tasks' = (tasks \ {t}) \cup new
        /\ loadingQueue' = queue \cup Idxs(new)
        /\ loadingPages' = SetState(loadingPages, Finally(loadingPages, t.idx, result) \cup Idxs(new))
  /\ UNCHANGED <<bookVars, opened, numPages, cancelled, initPc, pdfRef, pageCount, loading,
                 error, currentPage, timers, navCount>>

\* The component is unmounted: the clean-ups of lines 190-192 and 251-258 run
\* and React discards the component's state, which is never read again (the
\* state variables go back to their initial values; pending timers and
\* callbacks keep the closures and refs they captured).
Unmount ==
  /\ ~cancelled
  /\ cancelled' = TRUE
  /\ unrevoked' = CleanupPages(pages, unrevoked)
  /\ pageCount' = 0
  /\ pages' = EmptyMap
  /\ loadingPages' = {}
  /\ loading' = TRUE
  /\ error' = FALSE
  /\ currentPage' = 0
  /\ UNCHANGED <<bookVars, opened, numPages, initPc, pdfRef, loadingQueue, tasks, timers, navCount,
                 failed, escaped, events>>

Next ==
  \/ \E ok \in BOOLEAN : OpenDocument(ok)
  \/ \E ok \in BOOLEAN : GetDimensions(ok)
  \/ \E o \in {"ok", "error"} : FirstPageDone(o)
  \/ \E o \in {"ok", "error"} : SecondPageDone(o)
  \/ \E n \in FlipTargets : Navigate(n)
  \/ \E tm \in timers : TimerFires(tm)
  \/ \E t \in tasks : IdleCallback(t)
  \/ \E t \in tasks, o \in {"ok", "error"} : RenderDone(t, o)
  \/ Unmount

Spec == Init /\ [][Next]_vars

\* A render call made to the document returns, and a deferred loadPage
\* (requestIdleCallback with timeout 2000, or setTimeout 50) gets to run.
FairSpec ==
  /\ Spec
  /\ WF_vars(\E t \in tasks, o \in {"ok", "error"} : RenderDone(t, o))
  /\ WF_vars(\E t \in tasks : IdleCallback(t))

----------------------------------------------------------------------------
\* PortfolioBook.jsx

SPLIT_PAGES == TRUE

\* init, line 75: the number of flip-book pages.
BookPageCount(n) == IF SPLIT_PAGES THEN n * 2 ELSE n

\* preloadPagesAround, line 58: the PDF page that holds flip-book page idx.
PdfPageNum(idx) == IF SPLIT_PAGES THEN (idx \div 2) + 1 ELSE idx + 1

\* Lines 59-61: the half of the rendered PDF page that is stored for idx.
BookImage(idx) == [page |-> PdfPageNum(idx), half |-> IF SPLIT_PAGES THEN idx % 2 ELSE 0]

\* The closure a render of PortfolioBook gives to preloadPagesAround (line 65).
BookClosure(count, cache) == [pageCount |-> count, pages |-> DOMAIN cache]

\* preloadPagesAround, lines 54-57: the indices the loop renders, in order;
\* the range test and the cache test read the closure.
BookToLoad(currentIndex, c) ==
  SelectSeq(<<currentIndex, currentIndex + 1, currentIndex + 2>>,
            LAMBDA idx : ~(idx < 0 \/ idx >= c.pageCount) /\ idx \notin c.pages)

\* The effect of lines 68-92 depends on preloadPagesAround, which is made anew
\* when pageCount or pages change (line 65): the clean-up cancels the run
\* before, init runs again and calls getDocument.
Rerun(rs, changed, c) ==
  IF changed
  THEN {[r EXCEPT !.cancelled = TRUE] : r \in rs}
         \cup {[id |-> opened + 1, c |-> c, pc |-> "open", rest |-> <<>>, cancelled |-> FALSE]}
  ELSE rs

\* The re-run of the effect is within what is followed.
Followed(changed) == changed => opened < MaxOpens

\* The state after the first render of PortfolioBook: the first run of init
\* waits for getDocument.
BookInit ==
  /\ numPages \in PageCounts
  /\ cancelled = FALSE
  /\ initPc = "open"
  /\ pdfRef = FALSE
  /\ pageCount = 0
  /\ pages = EmptyMap
  /\ loadingPages = {}
  /\ loadingQueue = {}
  /\ loading = TRUE
  /\ error = FALSE
  /\ currentPage = 0
  /\ tasks = {}
  /\ timers = {}
  /\ navCount = 0
  /\ unrevoked = {}
  /\ failed = {}
  /\ escaped = FALSE
  /\ events = 0
  /\ initRuns = {[id |-> 1, c |-> BookClosure(0, EmptyMap), pc |-> "open",
                  rest |-> <<>>, cancelled |-> FALSE]}
  /\ opened = 1

\* init, lines 72-88: getDocument is back; on success the ref and the page
\* count are set and preloadPagesAround(0) of the run's closure starts.
BookOpenDone(r, ok) ==
  /\ r \in initRuns
  /\ r.pc = "open"
  /\ IF ok
     THEN LET count == BookPageCount(numPages)
              changed == ~cancelled /\ pageCount # count
              list == BookToLoad(0, r.c)
              r2 == IF list = <<>> THEN [r EXCEPT !.pc = "done"]
                    ELSE [r EXCEPT !.pc = "load", !.rest = list]
          IN /\ Followed(changed)
             /\ pdfRef' = TRUE
             /\ pageCount' = SetState(pageCount, count)
             /\ loading' = IF list = <<>> THEN SetState(loading, FALSE) ELSE loading
             /\ initRuns' = Rerun((initRuns \ {r}) \cup {r2}, changed, BookClosure(count, pages))
             /\ opened' = IF changed THEN opened + 1 ELSE opened
             /\ UNCHANGED error
     ELSE /\ initRuns' = (initRuns \ {r}) \cup {[r EXCEPT !.pc = "openFailed"]}
          /\ error' = IF r.cancelled THEN error ELSE SetState(error, TRUE)
          /\ loading' = IF r.cancelled THEN loading ELSE SetState(loading, FALSE)
          /\ UNCHANGED <<pdfRef, pageCount, opened>>
  /\ UNCHANGED <<flipPageVars, numPages, cancelled, pages, currentPage, tasks,
                 navCount, failed, escaped, events>>

\* preloadPagesAround called by init, lines 57-63, from the return of
\* loadPageImage on, then init, lines 81-88.
BookPageDone(r, outcome) ==
  /\ r \in initRuns
  /\ r.pc = "load"
  /\ LET idx == Head(r.rest)
         next == Tail(r.rest)
     IN /\ outcome \in RenderOutcomes(PdfPageNum(idx))
        /\ events' = Count(PdfPageNum(idx), outcome)
        /\ IF outcome = "ok"
           THEN LET cache == SetState(pages, MapSet(pages, idx, BookImage(idx)))
                    r2 == IF next = <<>> THEN [r EXCEPT !.pc = "done", !.rest = next]
                          ELSE [r EXCEPT !.rest = next]
                IN /\ Followed(~cancelled)
                   /\ pages' = cache
                   /\ loading' = IF next = <<>> THEN SetState(loading, FALSE) ELSE loading
                   /\ initRuns' = Rerun((initRuns \ {r}) \cup {r2}, ~cancelled,
                                        BookClosure(pageCount, cache))
                   /\ opened' = IF ~cancelled THEN opened + 1 ELSE opened
                   /\ UNCHANGED <<error, failed>>
           ELSE /\ initRuns' = (initRuns \ {r}) \cup {[r EXCEPT !.pc = "pageFailed"]}
                /\ error' = IF r.cancelled THEN error ELSE SetState(error, TRUE)
                /\ loading' = IF r.cancelled THEN loading ELSE SetState(loading, FALSE)
                /\ failed' = failed \cup {Handle(idx, "init", r.id)}
                /\ UNCHANGED <<pages, opened>>
  /\ UNCHANGED <<flipPageVars, numPages, cancelled, pdfRef, pageCount, currentPage,
                 tasks, navCount, escaped>>

\* HTMLFlipBook turns one spread forward or backward and reports the page.
BookFlipTargets == {n \in {currentPage - 2, currentPage + 2} : n >= 0 /\ n < pageCount}

\* onFlip, lines 146-148: preloadPagesAround(e.data), not awaited.
BookFlip(n) ==
  /\ ViewerShown
  /\ navCount < MaxNav
  /\ n \in BookFlipTargets
  /\ LET list == IF pdfRef THEN BookToLoad(n, BookClosure(pageCount, pages)) ELSE <<>>
     IN tasks' = IF list = <<>> THEN tasks
                 ELSE tasks \cup {[nav |-> navCount + 1, rest |-> list]}
  /\ navCount' = navCount + 1
  /\ currentPage' = n
  /\ UNCHANGED <<flipPageVars, bookVars, opened, numPages, cancelled, pdfRef, pageCount,
                 pages, loading, error, failed, escaped, events>>

\* preloadPagesAround called by onFlip, lines 57-63, from the return of
\* loadPageImage on; nobody handles the rejection of its promise.
BookFlipPageDone(t, outcome) ==
  /\ t \in tasks
  /\ LET idx == Head(t.rest)
         next == Tail(t.rest)
     IN /\ outcome \in RenderOutcomes(PdfPageNum(idx))
        /\ events' = Count(PdfPageNum(idx), outcome)
        /\ IF outcome = "ok"
           THEN LET cache == SetState(pages, MapSet(pages, idx, BookImage(idx)))
                IN /\ Followed(~cancelled)
                   /\ pages' = cache
                   /\ tasks' = (tasks \ {t}) \cup
                                 (IF next = <<>> THEN {} ELSE {[t EXCEPT !.rest = next]})
                   /\ initRuns' = Rerun(initRuns, ~cancelled, BookClosure(pageCount, cache))
                   /\ opened' = IF ~cancelled THEN opened + 1 ELSE opened
                   /\ UNCHANGED <<failed, escaped>>
           ELSE /\ tasks' = tasks \ {t}
                /\ failed' = failed \cup {Handle(idx, "flip", t.nav)}
                /\ escaped' = TRUE
                /\ UNCHANGED <<pages, initRuns, opened>>
  /\ UNCHANGED <<flipPageVars, numPages, cancelled, pdfRef, pageCount, loading, error,
                 currentPage, navCount>>

\* PortfolioBook is unmounted: the clean-up of line 91 cancels the latest run
\* of init, React discards the state.
BookUnmount ==
  /\ ~cancelled
  /\ cancelled' = TRUE
  /\ initRuns' = {[r EXCEPT !.cancelled = TRUE] : r \in initRuns}
  /\ pageCount' = 0
  /\ pages' = EmptyMap
  /\ loading' = TRUE
  /\ error' = FALSE
  /\ currentPage' = 0
  /\ UNCHANGED <<flipPageVars, opened, numPages, pdfRef, tasks, navCount, failed,
                 escaped, events>>

BookNext ==
  \/ \E r \in initRuns, ok \in BOOLEAN : BookOpenDone(r, ok)
  \/ \E r \in initRuns, o \in {"ok", "error"} : BookPageDone(r, o)
  \/ \E n \in BookFlipTargets : BookFlip(n)
  \/ \E t \in tasks, o \in {"ok", "error"} : BookFlipPageDone(t, o)
  \/ BookUnmount

BookSpec == BookInit /\ [][BookNext]_vars

----------------------------------------------------------------------------
\* What a step does, read off the two states of the step.

\* The loadPage closures created by the step.
Ident(t) == [idx |-> t.idx, priority |-> t.priority, nav |-> t.nav]
NewTasks == {t \in tasks' : Ident(t) \notin {Ident(u) : u \in tasks}}

\* The indices for which the step calls loadPageImage from loadPage.
PassRenderCalls == {t.idx : t \in {u \in tasks' : u.stage = "render"} \ tasks}

\* The indices for which the step calls loadPageImage from init.
InitRenderCalls ==
  IF initPc = "dims" /\ initPc' = "first" THEN {0}
  ELSE IF initPc = "first" /\ initPc' = "second" THEN {1}
  ELSE {}

RenderCalls == PassRenderCalls \cup InitRenderCalls

\* The renders that return in the step.
PassRendersDone == {t \in tasks : t.stage = "render" /\ Ident(t) \notin {Ident(u) : u \in tasks'}}
InitRenderDone == initPc \in {"first", "second"} /\ initPc' # initPc

\* No render is awaited and no deferred loadPage is pending.
NoRenderOutstanding == tasks = {} /\ initPc \notin {"first", "second"}

----------------------------------------------------------------------------
\* C1: once index i is in the cache, no later step calls the renderer for i
\* and the cache entry of i is never replaced, as long as the component lives.
C1_CompletedEntriesImmutable ==
  [][~cancelled' =>
       \A i \in DOMAIN pages :
          /\ i \in DOMAIN pages'
          /\ pages'[i] = pages[i]
          /\ i \notin RenderCalls]_vars

\* C2: a pass never creates a loadPage for an index that is in loadingQueue,
\* so at most one loadPage (deferred or rendering) exists per index.
C2_AtMostOneInFlight ==
  [][/\ \A t \in NewTasks : t.idx \notin loadingQueue
     /\ \A t, u \in tasks' : t.idx = u.idx => t = u]_vars

\* C2 witness: page 1 is still being rendered for the first flip when the
\* foreground pass of the second flip (to page 0) has gone over 0 and 1.
C2_Witness ==
  /\ navCount = 2
  /\ currentPage = 0
  /\ \E t \in tasks : t.nav = 1 /\ t.priority /\ t.idx = 1 /\ t.stage = "render"
  /\ ~\E u \in tasks : u.nav = 2 /\ u.priority
  /\ 0 \in DOMAIN pages
  /\ pages[0] = Handle(0, "fg", 2)

\* C3: no index is at once in an in-flight set and in the cache.
C3_ExactlyOneState ==
  \A i \in loadingQueue \cup loadingPages : i \notin DOMAIN pages

\* The window of a background pass around cur.
InWindow(i, cur) == i >= cur - 2 /\ i <= cur + 3

\* C4: the list a foreground pass goes over is <<currentIndex, currentIndex+1>>
\* without the indices outside [0, pageCount), in that order, at most 2 long;
\* the loadPage the pass starts with is for the first entry that is not queued.
C4_ForegroundSelection ==
  [][navCount' # navCount =>
       LET cur == currentPage'
           expected == SelectSeq(<<cur, cur + 1>>, LAMBDA i : i >= 0 /\ i < pageCount)
           list == PagesToLoad(cur, TRUE, Closure)
       IN /\ pageCount > 0
          /\ list = expected
          /\ Len(list) <= 2
          /\ \A t \in NewTasks :
               \E k \in 1..Len(expected) :
                  /\ <<t.idx>> \o t.rest = SubSeq(expected, k, Len(expected))
                  /\ \A j \in 1..(k - 1) : expected[j] \in loadingQueue]_vars

\* C4 witness: the flip to the last page started a foreground pass whose list
\* is the last page alone.
C4_Witness ==
  /\ navCount > 0
  /\ currentPage = pageCount - 1
  /\ \E t \in tasks : t.priority /\ t.nav = navCount /\ t.idx = currentPage /\ t.rest = <<>>

\* C5: the list of a background pass holds only indices of its window and of
\* [0, pageCount) that are, when the pass runs, neither in the cache nor in an
\* in-flight set; it is sorted by distance from currentIndex, ties by index,
\* and at most 4 long.
C5_BackgroundSelection ==
  [][\A tm \in timers \ timers' :
       (~(tm.init /\ cancelled) /\ ~PassReturnsEarly(tm.c)) =>
          LET list == PagesToLoad(tm.cur, FALSE, tm.c)
              d(i) == Abs(i - tm.cur)
          IN /\ Len(list) <= 4
             /\ \A k \in 1..Len(list) :
                  /\ InWindow(list[k], tm.cur)
                  /\ list[k] >= 0 /\ list[k] < numPages
                  /\ list[k] \notin DOMAIN pages
                  /\ list[k] \notin loadingQueue \cup loadingPages
             /\ \A j, k \in 1..Len(list) :
                  j < k => \/ d(list[j]) < d(list[k])
                           \/ d(list[j]) = d(list[k]) /\ list[j] < list[k]]_vars

\* C6: a render that returns after the unmount changes neither the cache nor
\* an in-flight set.
C6_DiscardedAfterDispose ==
  [][(cancelled /\ (PassRendersDone # {} \/ InitRenderDone)) =>
        UNCHANGED <<pages, loadingPages, loadingQueue>>]_vars

\* C7: after the unmount, once no render is outstanding, every blob: URL that
\* was created has been revoked.
C7_NoLeak == (cancelled /\ NoRenderOutstanding) => unrevoked = {}

\* The end-to-end scenario: a 10-page document, the latest flip went to page
\* 0, the component is mounted and no render has failed.
FlippedToFirstPage ==
  numPages = 10 /\ navCount >= 1 /\ currentPage = 0 /\ ~cancelled /\ failed = {}

ForegroundPassDone(nav) == ~\E t \in tasks : t.priority /\ t.nav = nav
BackgroundPassRun(nav) == ~\E tm \in timers : tm.nav = nav
BackgroundRendersDone(nav) == ~\E t \in tasks : ~t.priority /\ t.nav = nav

\* C8 as stated: after the flip to page 0 the cache holds 0 and 1 once the
\* foreground pass is over, it also holds 2 and 3 once the background pass of
\* that flip and the renders of that pass are over, and that flip never asks
\* for page 4.
C8_AsStated ==
  FlippedToFirstPage =>
    /\ ForegroundPassDone(navCount) => {0, 1} \subseteq DOMAIN pages
    /\ (/\ ForegroundPassDone(navCount)
        /\ BackgroundPassRun(navCount)
        /\ BackgroundRendersDone(navCount)) => {2, 3} \subseteq DOMAIN pages
    /\ ~\E t \in tasks : t.nav = navCount /\ t.idx = 4

\* C8 amended: ... it also holds 2 and 3 once the background pass of that flip
\* has run and no render of 2 or 3 is in flight any more, whichever pass
\* started it ...
C8_EndToEnd ==
  FlippedToFirstPage =>
    /\ ForegroundPassDone(navCount) => {0, 1} \subseteq DOMAIN pages
    /\ (/\ ForegroundPassDone(navCount)
        /\ BackgroundPassRun(navCount)
        /\ ~\E t \in tasks : t.idx \in {2, 3}) => {2, 3} \subseteq DOMAIN pages
    /\ ~\E t \in tasks : t.nav = navCount /\ t.idx = 4

\* C8 witness: both passes of the flip to page 0 are over, nothing is in
\* flight, the cache holds 0..3 and page 3 was rendered by that background pass.
C8_Witness ==
  /\ FlippedToFirstPage
  /\ ForegroundPassDone(navCount)
  /\ BackgroundPassRun(navCount)
  /\ tasks = {}
  /\ {0, 1, 2, 3} \subseteq DOMAIN pages
  /\ pages[3] = Handle(3, "bg", navCount)

\* C9: when the render of a pass fails, the step that handles the failure
\* leaves no cache entry made by that render, takes the index out of
\* loadingQueue and loadingPages, and lets no exception out.
C9_RenderFailureContained ==
  [][\A h \in failed' \ failed :
       h.src \in {"fg", "bg"} =>
          /\ h.idx \in DOMAIN pages' => pages'[h.idx] # h
          /\ pages' = pages
          /\ h.idx \notin loadingQueue'
          /\ h.idx \notin loadingPages'
          /\ ~escaped']_vars

\* C9 witness: the render of a pass has failed, the component is mounted and
\* the index is in no in-flight set.
C9_Witness ==
  /\ ~cancelled
  /\ \E h \in failed :
       /\ h.src \in {"fg", "bg"}
       /\ h.idx \notin loadingQueue \cup loadingPages
       /\ h.idx \notin DOMAIN pages

\* C10: when the document cannot be opened the (mounted) component shows the
\* error, and nothing is scheduled: no render call, no loadPage, no timer, the
\* cache and the in-flight sets stay empty.
C10_OpenFailureIsFatal ==
  initPc = "openFailed" =>
    /\ ~cancelled => (error /\ ~loading)
    /\ ~pdfRef
    /\ pages = EmptyMap
    /\ loadingQueue = {} /\ loadingPages = {}
    /\ tasks = {} /\ timers = {}
    /\ navCount = 0

\* C10 witness: the open has failed and the error screen is shown.
C10_Witness == initPc = "openFailed" /\ error /\ ~loading /\ ~cancelled

\* C12: the background pass of a flip (the 200 ms timer of handlePageChange)
\* never starts while the foreground pass of that flip is still running.
C12_BackgroundAfterForeground ==
  [][\A tm \in timers \ timers' :
       ~tm.init => ~\E t \in tasks : t.priority /\ t.nav = tm.nav]_vars

\* The foreground pass of flip n returns to its caller in the step: its loop
\* ends, at the call when every index is queued, else after its last render.
ForegroundPassReturns(n) ==
  /\ \/ navCount' = n /\ navCount # n
     \/ \E t \in tasks : t.priority /\ t.nav = n
  /\ ~\E t \in tasks' : t.priority /\ t.nav = n

\* C13: when the foreground pass of the latest flip returns, the component is
\* mounted and no render has failed, the cache holds currentIndex and, when in
\* range, currentIndex + 1.
C13_ForegroundPassCaches ==
  [][(~cancelled' /\ failed' = {} /\ ForegroundPassReturns(navCount')) =>
        \A i \in {currentPage', currentPage' + 1} :
           (i >= 0 /\ i < pageCount') => i \in DOMAIN pages']_vars

\* The index has had a failed render and is, before the step, neither in the
\* cache nor in flight.
RetryDue(i) ==
  /\ i >= 0 /\ i < numPages
  /\ \E h \in failed : h.idx = i
  /\ i \notin DOMAIN pages
  /\ i \notin loadingQueue

\* The step creates a loadPage that renders i or has i next on its list.
Requests(i) == \E t \in NewTasks : i = t.idx \/ \E k \in 1..Len(t.rest) : t.rest[k] = i

\* C14: a pass of handlePageChange that starts while the component is mounted
\* requests every index of its window (currentIndex and currentIndex + 1 for
\* the foreground pass, currentIndex - 2 .. currentIndex + 3 for the
\* background pass) whose render failed before and that is neither cached nor
\* in flight.
C14_FailedIndexRetried ==
  [][~cancelled =>
       /\ navCount' # navCount =>
            \A i \in {currentPage', currentPage' + 1} : RetryDue(i) => Requests(i)
       /\ \A tm \in timers \ timers' :
            ~tm.init => \A i \in 0..(numPages - 1) :
                           (InWindow(i, tm.cur) /\ RetryDue(i)) => Requests(i)]_vars

\* C15: when the 100 ms timer of init fires in a mounted component, the
\* background pass around index 0 hands the uncached indices of its window to
\* the deferred loader: indices 2 and 3 when the document has 4 pages or more.
C15_InitialBackgroundPassLoads ==
  [][\A tm \in timers \ timers' :
       (tm.init /\ ~cancelled /\ ~loading /\ numPages >= 4) =>
          \A i \in {2, 3} :
             i \notin DOMAIN pages => \E t \in tasks' : t.idx = i]_vars

\* C16: every render call, made by init or by a pass, is for an index of
\* [0, pageCount), pageCount being the page count of the document.
C16_RenderRequestsInRange ==
  [][\A i \in RenderCalls : i >= 0 /\ i < numPages]_vars

\* C19: while the component is mounted every blob: URL that the cache holds is
\* unrevoked.
C19_CachedHandlesLive == ~cancelled => Blobs(Range(pages)) \subseteq unrevoked

\* The deferred loadPage of index i is among the callbacks that never run.
CallbackNeverRuns(i) ==
  events >= MaxEvents /\ \E t \in tasks : t.idx = i /\ t.stage = "idle"

\* The indices of the largest document considered.
Indices == 0..((CHOOSE n \in PageCounts : \A m \in PageCounts : m <= n) - 1)

\* C20: an index is in loadingQueue exactly while a loadPage for it is pending
\* or rendering, and in loadingPages too while the component is mounted; with
\* no loadPage left both sets are empty; and an index that is in flight leaves
\* both sets, whatever the outcome of its render, unless its deferred callback
\* never runs.
C20_InFlightDrains ==
  /\ [](loadingQueue = Idxs(tasks))
  /\ [](~cancelled => loadingPages = Idxs(tasks))
  /\ [](tasks = {} => loadingQueue = {} /\ loadingPages = {})
  /\ \A i \in Indices :
       (i \in loadingQueue \cup loadingPages)
          ~> (i \notin loadingQueue \cup loadingPages \/ CallbackNeverRuns(i))

\* C20 witness: a deferred loadPage has run and stored its image, no loadPage
\* is left and both in-flight sets of the mounted component are empty.
C20_Witness ==
  /\ ~cancelled
  /\ tasks = {}
  /\ loadingQueue = {} /\ loadingPages = {}
  /\ \E i \in DOMAIN pages : pages[i].src = "bg"

\* C11: in PortfolioBook the error screen is reached only by a failure of
\* getDocument, and no failure of a page operation leaves a handler uncaught.
C11_OnlyOpenFailureIsFatal ==
  /\ error => \E r \in initRuns : r.pc = "openFailed"
  /\ ~escaped

\* C17: PortfolioBook calls getDocument once per mounted component.
C17_OpenedOnce == opened <= 1

\* C18: when PortfolioBook shows the viewer (loading false, no error) and no
\* render has failed, the cache holds the indices 0, 1 and 2 that are within
\* [0, pageCount).
C18_FirstSpreadLoaded ==
  (ViewerShown /\ failed = {}) =>
     \A i \in {0, 1, 2} : i < pageCount => i \in DOMAIN pages

====
